---- MODULE Spec2Model ----
(***************************************************************************)
(* Model of src/main.rs: the GNOME workspace shortcuts menu.                *)
(*                                                                         *)
(* A Rust String is modelled as a sequence of characters, each character a *)
(* one-character TLA+ string, so <<"<","A","l","t",">">> is "<Alt>".  The   *)
(* settings store (gsettings/dconf) is a map from (schema, key) to the text *)
(* `gsettings get` prints for it.  One action is one run of a handler:      *)
(* MyApp::new, or one frame of App::update with the input of that frame.    *)
(***************************************************************************)
EXTENDS Integers, Sequences, FiniteSets, TLC

(***************************************************************************)
(* Bounds of the model.                                                    *)
(***************************************************************************)
\* frames rendered in one run
MaxFrames == 2
\* longest text a user puts into a key field in one frame
MaxTyped == 2

(***************************************************************************)
(* Strings.                                                                *)
(***************************************************************************)
\* str::len counts bytes: the one non-ASCII character of the model takes two
ByteLen(c) == IF c = "é" THEN 2 ELSE 1

RECURSIVE StrLen(_)
StrLen(s) == IF s = <<>> THEN 0 ELSE ByteLen(Head(s)) + StrLen(Tail(s))

\* char::is_whitespace, on the characters of the model
WhiteSpace == {" ", "\n", "\t"}

\* str::contains
Contains(s, p) ==
    \E i \in 0..(Len(s) - Len(p)) : SubSeq(s, i + 1, i + Len(p)) = p

\* str::replace with a string pattern: non-overlapping matches, left to right;
\* the empty pattern matches before every character and at the end
RECURSIVE Replace(_, _, _)
Replace(s, from, to) ==
    IF from = <<>>
    THEN IF s = <<>> THEN to ELSE to \o <<Head(s)>> \o Replace(Tail(s), from, to)
    ELSE IF Len(s) < Len(from) THEN s
    ELSE IF SubSeq(s, 1, Len(from)) = from
         THEN to \o Replace(SubSeq(s, Len(from) + 1, Len(s)), from, to)
         ELSE <<Head(s)>> \o Replace(Tail(s), from, to)

\* str::replace with a pattern that is a set of characters
RECURSIVE ReplaceChars(_, _, _)
ReplaceChars(s, chars, to) ==
    IF s = <<>> THEN <<>>
    ELSE (IF Head(s) \in chars THEN to ELSE <<Head(s)>>)
         \o ReplaceChars(Tail(s), chars, to)

RECURSIVE TrimStart(_)
TrimStart(s) ==
    IF s # <<>> /\ Head(s) \in WhiteSpace THEN TrimStart(Tail(s)) ELSE s

RECURSIVE TrimEnd(_)
TrimEnd(s) ==
    IF s # <<>> /\ s[Len(s)] \in WhiteSpace
    THEN TrimEnd(SubSeq(s, 1, Len(s) - 1)) ELSE s

\* str::trim
Trim(s) == TrimEnd(TrimStart(s))

\* str::split(sep) for a one-character separator: the pieces, empty ones kept
RECURSIVE SplitAcc(_, _, _)
SplitAcc(s, sep, cur) ==
    IF s = <<>> THEN <<cur>>
    ELSE IF Head(s) = sep THEN <<cur>> \o SplitAcc(Tail(s), sep, <<>>)
    ELSE SplitAcc(Tail(s), sep, Append(cur, Head(s)))

Split(s, sep) == SplitAcc(s, sep, <<>>)

\* str::split_whitespace: the non-empty pieces between runs of whitespace
RECURSIVE SplitWsAcc(_, _)
SplitWsAcc(s, cur) ==
    IF s = <<>> THEN (IF cur = <<>> THEN <<>> ELSE <<cur>>)
    ELSE IF Head(s) \in WhiteSpace
         THEN (IF cur = <<>> THEN <<>> ELSE <<cur>>) \o SplitWsAcc(Tail(s), <<>>)
         ELSE SplitWsAcc(Tail(s), Append(cur, Head(s)))

SplitWhitespace(s) == SplitWsAcc(s, <<>>)

Digits == <<"0", "1", "2", "3", "4", "5", "6", "7", "8", "9">>

\* usize::to_string, and the {} of format! applied to a usize
RECURSIVE UsizeToString(_)
UsizeToString(n) ==
    IF n < 10 THEN <<Digits[n + 1]>>
    ELSE UsizeToString(n \div 10) \o <<Digits[(n % 10) + 1]>>

DigitValue(c) == CHOOSE d \in 0..9 : Digits[d + 1] = c

RECURSIVE ParseDigits(_, _)
ParseDigits(s, acc) ==
    IF s = <<>> THEN acc
    ELSE ParseDigits(Tail(s), 10 * acc + DigitValue(Head(s)))

\* str::parse::<usize>: an optional + and at least one digit, nothing else;
\* -1 stands for Err(ParseIntError)
ParseUsize(s) ==
    LET d == IF s # <<>> /\ Head(s) = "+" THEN Tail(s) ELSE s
    IN  IF d # <<>> /\ \A i \in 1..Len(d) : \E v \in 1..10 : Digits[v] = d[i]
        THEN ParseDigits(d, 0) ELSE -1

(***************************************************************************)
(* The modifier table and the literals of the program.                     *)
(***************************************************************************)
Alt == <<"<", "A", "l", "t", ">">>
Ctrl == <<"<", "C", "t", "r", "l", ">">>
Super == <<"<", "S", "u", "p", "e", "r", ">">>
Shift == <<"<", "S", "h", "i", "f", "t", ">">>

Modifier(name, gsettings_value) ==
    [name |-> name, gsettings_value |-> gsettings_value]

\* get_vec(): MyApp::modifier_vec, never assigned after Default
modifier_vec ==
    << Modifier("NONE", <<>>),
       Modifier("ALT", Alt),
       Modifier("CTRL", Ctrl),
       Modifier("SUPER", Super),
       Modifier("SHIFT", Shift),
       Modifier("SHIFT+SUPER", Shift \o Super) >>

\* modifier_vec[i] with the 0-based index of the code
ModifierAt(i) == modifier_vec[i + 1]

ModifierIndices == 0..(Len(modifier_vec) - 1)

\* "[\"\"]"
EMPTY_KEYBINDING == <<"[", "\"", "\"", "]">>

WorkspaceCount == 10

WM_KEYBINDINGS == "org.gnome.desktop.wm.keybindings"
SHELL_KEYBINDINGS == "org.gnome.shell.keybindings"
WM_PREFERENCES == "org.gnome.desktop.wm.preferences"

\* format!("switch-to-workspace-{}", n): the literal part is kept as one piece
SwitchKey(n) == <<"switch-to-workspace-">> \o UsizeToString(n)
MoveKey(n) == <<"move-to-workspace-">> \o UsizeToString(n)
SwitchLabel(n) == <<"Switch to workspace ">> \o UsizeToString(n)
MoveLabel(n) == <<"Move window to workspace ">> \o UsizeToString(n)
ApplicationKey(id) == <<"switch-to-application-">> \o UsizeToString(id)
NumWorkspacesKey == <<"num-workspaces">>

(***************************************************************************)
(* The symbol table.                                                       *)
(***************************************************************************)
\* HashMap::insert
Insert(m, k, v) == [x \in (DOMAIN m) \cup {k} |-> IF x = k THEN v ELSE m[x]]

\* HashMap::new()
EmptyMap == [x \in {} |-> <<>>]

\* the loop body with the second column, not the third, stored as the key
InsertLineSecondColumn(maps, line) ==
    LET s == SplitWhitespace(line)
    IN  IF Len(s) >= 3
        THEN [key_to_keysym |-> Insert(maps.key_to_keysym, s[3], s[1]),
              keysym_to_key |-> Insert(maps.keysym_to_key, s[1], s[2])]
        ELSE maps

\* the body of the loop of init_keysyms for one line, on the pair of maps
InsertLine(maps, line) ==
    LET s == SplitWhitespace(line)
    IN  IF Len(s) >= 3
        THEN [key_to_keysym |-> Insert(maps.key_to_keysym, s[3], s[1]),
              keysym_to_key |-> Insert(maps.keysym_to_key, s[1], s[3])]
        ELSE maps

RECURSIVE InsertLines(_, _)
InsertLines(maps, lines) ==
    IF lines = <<>> THEN maps
    ELSE InsertLines(InsertLine(maps, Head(lines)), Tail(lines))

\* init_keysyms on the text of gnome-keysyms.txt
InitKeysyms(keys) ==
    InsertLines([key_to_keysym |-> EmptyMap, keysym_to_key |-> EmptyMap],
                Split(keys, "\n"))

(***************************************************************************)
(* The keybinding slots.                                                   *)
(***************************************************************************)
Slots == 0..(2 * WorkspaceCount - 1)

\* the two insert loops with the second inserting at i, not i + workspace_count
GenWorkspaceKeybindingMapSameIndex ==
    [i \in 0..(WorkspaceCount - 1) |->
        [modifier |-> "NONE", modifier_index |-> 0,
         gsettings_key |-> MoveKey(i + 1),
         gsettings_value |-> <<>>,
         label |-> MoveLabel(i + 1),
         keybinding |-> <<>>,
         converted_keybinding |-> <<>>]]

\* gen_workspace_keybinding_map: the two insert loops
GenWorkspaceKeybindingMap ==
    LET first == [i \in 0..(WorkspaceCount - 1) |->
                    [modifier |-> "NONE", modifier_index |-> 0,
                     gsettings_key |-> SwitchKey(i + 1),
                     gsettings_value |-> <<>>,
                     label |-> SwitchLabel(i + 1),
                     keybinding |-> <<>>,
                     converted_keybinding |-> <<>>]]
        second == [j \in WorkspaceCount..(2 * WorkspaceCount - 1) |->
                    [modifier |-> "NONE", modifier_index |-> 0,
                     gsettings_key |-> MoveKey(j - WorkspaceCount + 1),
                     gsettings_value |-> <<>>,
                     label |-> MoveLabel(j - WorkspaceCount + 1),
                     keybinding |-> <<>>,
                     converted_keybinding |-> <<>>]]
    IN  [k \in (DOMAIN first) \cup (DOMAIN second) |->
            IF k \in DOMAIN second THEN second[k] ELSE first[k]]

\* m_vals: the (index, modifier) pairs in table order
MVals == [i \in 1..Len(modifier_vec) |-> <<i - 1, modifier_vec[i]>>]

\* a comparator that sorts the shorter string first
ShorterFirst(a, b) == StrLen(a[2].gsettings_value) < StrLen(b[2].gsettings_value)

\* the comparator of the sort: b's length against a's, so longer comes first
LongerFirst(a, b) == StrLen(a[2].gsettings_value) > StrLen(b[2].gsettings_value)

\* one insertion of a stable sort: x goes behind every element it does not precede
RECURSIVE InsertSorted(_, _)
InsertSorted(sorted, x) ==
    IF sorted = <<>> THEN <<x>>
    ELSE IF LongerFirst(x, Head(sorted)) THEN <<x>> \o sorted
    ELSE <<Head(sorted)>> \o InsertSorted(Tail(sorted), x)

RECURSIVE SortByLen(_, _)
SortByLen(todo, sorted) ==
    IF todo = <<>> THEN sorted
    ELSE SortByLen(Tail(todo), InsertSorted(sorted, Head(todo)))

\* m_vals after sort_by (a stable sort)
SortedMVals == SortByLen(MVals, <<>>)

\* the for loop over the sorted pairs: the index of the first non-empty modifier
\* the value contains; the slot's index as it was when none is contained
RECURSIVE FirstContained(_, _, _)
FirstContained(m_vals, gsettings_value, modifier_index) ==
    IF m_vals = <<>> THEN modifier_index
    ELSE IF Head(m_vals)[2].gsettings_value # <<>>
            /\ Contains(gsettings_value, Head(m_vals)[2].gsettings_value)
         THEN Head(m_vals)[1]
         ELSE FirstContained(Tail(m_vals), gsettings_value, modifier_index)

DetectModifier(gsettings_value, modifier_index) ==
    FirstContained(SortedMVals, gsettings_value, modifier_index)

\* the same chain of replacements without the trim at its end
ParseKeysymUntrimmed(gsettings_value, m) ==
    Replace(ReplaceChars(Replace(gsettings_value, m, <<>>),
                         {"'", "[", "]"}, <<>>),
            <<"@", "a", "s">>, <<>>)

\* the keysym left of a stored value once the modifier m is taken out
ParseKeysym(gsettings_value, m) ==
    Trim(Replace(ReplaceChars(Replace(gsettings_value, m, <<>>),
                              {"'", "[", "]"}, <<>>),
                 <<"@", "a", "s">>, <<>>))

\* keysym_to_key.get(&keysym), None giving the keysym itself
KeyOfKeysym(to_key, keysym) ==
    IF keysym \in DOMAIN to_key THEN to_key[keysym] ELSE keysym

\* get_gsettings_value_from_config once get_wm_keybinding has returned Ok(out)
ReadSlot(v, out, to_key) ==
    LET idx == DetectModifier(out, v.modifier_index)
        m == ModifierAt(idx).gsettings_value
    IN  [v EXCEPT !.gsettings_value = out,
                  !.modifier_index = idx,
                  !.keybinding = KeyOfKeysym(to_key, ParseKeysym(out, m))]

\* the key field left as the user typed it
OneKeyUncut(keybinding) == keybinding

\* "make sure it's only 1 key"
OneKey(keybinding) ==
    IF StrLen(keybinding) > 1 THEN <<Head(keybinding)>> ELSE keybinding

\* key_to_keysym.get(&selection.keybinding), None giving the key itself
KeysymOfKey(to_keysym, keybinding) ==
    IF keybinding \in DOMAIN to_keysym THEN to_keysym[keybinding]
    ELSE keybinding

\* format!("['{}{}']", modifier, keybind)
FormatKeybinding(m, keybind) == <<"[", "'">> \o m \o keybind \o <<"'", "]">>

\* workspace_keybinding_input up to the Overwrite button, for one slot: the
\* combo box (sel, -1 when nothing is chosen), the key field (typed, with edited
\* saying whether the user changed it), the cut to one key and the conversion
RenderSlot(v, sel, edited, typed, to_keysym) ==
    LET v1 == IF sel >= 0
              THEN [v EXCEPT !.modifier = ModifierAt(sel).name,
                             !.modifier_index = sel]
              ELSE v
        kb == OneKey(IF edited THEN typed ELSE v1.keybinding)
    IN  [v1 EXCEPT !.keybinding = kb,
                   !.converted_keybinding =
                       FormatKeybinding(ModifierAt(v1.modifier_index).gsettings_value,
                                        KeysymOfKey(to_keysym, kb))]

(***************************************************************************)
(* The state.                                                              *)
(***************************************************************************)
VARIABLES
    status,                    \* "start" before MyApp::new, then "running"; "panicked" once an unwrap failed
    keysyms_txt,               \* the text of gnome-keysyms.txt, compiled in by include_str!
    key_to_keysym,             \* MyApp::key_to_keysym
    keysym_to_key,             \* MyApp::keysym_to_key
    workspace_keybinding_map,  \* MyApp::workspace_keybinding_map
    num_of_workspaces,         \* MyApp::num_of_workspaces
    store,                     \* the settings store: (schema, key) -> the text gsettings get prints
    event,                     \* the input of the handler that ran last
    cmds,                      \* the gsettings commands that handler ran, in order
    printed,                   \* what that handler printed with println!
    frames                     \* frames rendered so far

vars == <<status, keysyms_txt, key_to_keysym, keysym_to_key,
          workspace_keybinding_map, num_of_workspaces, store, event, cmds,
          printed, frames>>

(***************************************************************************)
(* The settings command.                                                   *)
(***************************************************************************)
\* one run of the gsettings command as the program sees it: ok is whether
\* Command::output (and String::from_utf8) returned Ok
Cmd(op, schema, key, value, ok) ==
    [op |-> op, schema |-> schema, key |-> key, value |-> value, ok |-> ok]

GetCmd(schema, key, ok) == Cmd("get", schema, key, <<>>, ok)
SetCmd(schema, key, value, ok) == Cmd("set", schema, key, value, ok)

\* the text gsettings get prints for a value that gsettings set accepted:
\* the value with single quotes, and a line break
StoreText(value) == ReplaceChars(value, {"\""}, <<"'">>) \o <<"\n">>

\* the store after gsettings set ran: a value the store accepts replaces the
\* key's value; a run that exits with an error status leaves the store alone
\* (the program looks at neither the status nor stderr)
StoreAfterSet(st, schema, key, value, accepted) ==
    IF accepted THEN [st EXCEPT ![<<schema, key>>] = StoreText(value)] ELSE st

WmKey(k) == IF k < WorkspaceCount THEN SwitchKey(k + 1)
            ELSE MoveKey(k - WorkspaceCount + 1)

StoreKeys ==
    {<<WM_KEYBINDINGS, WmKey(k)>> : k \in Slots}
    \cup {<<SHELL_KEYBINDINGS, ApplicationKey(id)>> : id \in 1..9}
    \cup {<<WM_PREFERENCES, NumWorkspacesKey>>}

(***************************************************************************)
(* Inputs: the bundled table, the store the program starts on, what the    *)
(* user types.                                                             *)
(***************************************************************************)
RECURSIVE JoinLines(_)
JoinLines(lines) ==
    IF lines = <<>> THEN <<>>
    ELSE Head(lines) \o <<"\n">> \o JoinLines(Tail(lines))

LineA == <<"a", " ", "0", "x", "6", "1", " ", "a">>
LineAt == <<"a", "t", " ", "0", "x", "4", "0", " ", "@">>
LineSpace == <<"s", "p", "a", "c", "e", " ", "0", "x", "2", "0", " ", " ">>
LineB == <<"b", " ", "0", "x", "6", "2", " ", "a">>
LineAt2 == <<"a", "t", " ", "0", "x", "6", "1", " ", "a">>

\* the table whose lines name every key and every keysym once
PlainFile == JoinLines(<<LineA, LineAt, LineSpace>>)

\* tables: none; one that names every key and keysym once (and the space line,
\* whose key column is blank); one that repeats a key; one that repeats a keysym
KeysymFiles ==
    { <<>>,
      PlainFile,
      JoinLines(<<LineA, LineB>>),
      JoinLines(<<LineAt, LineAt2>>) }

Home == <<"H", "o", "m", "e">>

\* values a slot's key holds before the program starts
StoredValues ==
    << <<"@", "a", "s", " ", "[", "]", "\n">>,
       <<"[", "'">> \o Shift \o Super \o <<"a", "'", "]", "\n">>,
       <<"[", "'">> \o Super \o Home \o <<"'", "]", "\n">>,
       <<"[", "'">> \o Alt \o Super \o <<"@", "'", "]", "\n">> >>

InitialStore(off) ==
    [sk \in StoreKeys |->
        IF sk[1] = WM_KEYBINDINGS
        THEN LET k == CHOOSE j \in Slots : WmKey(j) = sk[2]
             IN  StoredValues[((k + off) % Len(StoredValues)) + 1]
        ELSE IF sk[1] = SHELL_KEYBINDINGS
        THEN FormatKeybinding(Super, <<sk[2][Len(sk[2])]>>) \o <<"\n">>
        ELSE <<"4", "\n">>]

InitialStores == {InitialStore(off) : off \in 0..1}

\* the (table, store) pairs a run starts on: every table on the first store,
\* and the plain table on every store
InitialConfigs ==
    {<<f, InitialStore(0)>> : f \in KeysymFiles}
    \cup {<<PlainFile, st>> : st \in InitialStores}

\* the slots whose combo box and key field the user works on, and the slots
\* whose Overwrite button the user clicks: the first switch slot, and the
\* first move slot
Edited == {0}
Clicked == {0, WorkspaceCount}

\* texts a user leaves in a key field: the beginnings of these samples
SampleTexts ==
    { <<"a", "@", " ", "é">>, <<"@", "a", "é", " ">>,
      <<" ", "é", "a", "@">>, <<"é", " ", "@", "a">> }

\* what a key field can hold after the user edited it
TypedTexts ==
    {SubSeq(t, 1, n) : t \in SampleTexts, n \in 0..MaxTyped}

\* what the user types into the number field
NumTexts == {<<"1", "2">>, <<"a">>}

\* the slots at which a read of the store fails at startup
StartupReadFailures == {WorkspaceCount}

NoEvent == [op |-> "none", k |-> -1]

(***************************************************************************)
(* The initial state: impl Default for MyApp, before MyApp::new runs.      *)
(***************************************************************************)
Init ==
    /\ status = "start"
    /\ \E c \in InitialConfigs : keysyms_txt = c[1] /\ store = c[2]
    /\ key_to_keysym = EmptyMap
    /\ keysym_to_key = EmptyMap
    /\ workspace_keybinding_map = EmptyMap
    /\ num_of_workspaces = <<"4">>
    /\ event = NoEvent
    /\ cmds = <<>>
    /\ printed = <<>>
    /\ frames = 0

(***************************************************************************)
(* MyApp::new.                                                             *)
(***************************************************************************)
\* the keys of a map in ascending order, as BTreeMap iterates them
RECURSIVE KeysInOrder(_)
KeysInOrder(ks) ==
    IF ks = {} THEN <<>>
    ELSE LET lo == CHOOSE x \in ks : \A y \in ks : x <= y
         IN  <<lo>> \o KeysInOrder(ks \ {lo})

\* get_gsettings_values_from_config: the slots are read in key order until a
\* read fails (fail_at, or -1 when none does); ? returns at the failing read
\* before the slot is assigned
ReadSlots(map, st, to_key, fail_at) ==
    [k \in DOMAIN map |->
        IF fail_at < 0 \/ k < fail_at
        THEN ReadSlot(map[k], st[<<WM_KEYBINDINGS, map[k].gsettings_key>>], to_key)
        ELSE map[k]]

ReadSlotsCmds(map, fail_at) ==
    LET ks == KeysInOrder({k \in DOMAIN map : fail_at < 0 \/ k <= fail_at})
    IN  [i \in 1..Len(ks) |->
            GetCmd(WM_KEYBINDINGS, map[ks[i]].gsettings_key, ks[i] # fail_at)]

\* get_number_of_workspaces: -1 stands for Err
GetNumberOfWorkspaces(st, ok) ==
    IF ok THEN ParseUsize(Trim(st[<<WM_PREFERENCES, NumWorkspacesKey>>])) ELSE -1

New(fail_at, num_ok) ==
    /\ status = "start"
    /\ LET maps == InitKeysyms(keysyms_txt)
           map == GenWorkspaceKeybindingMap
           num == GetNumberOfWorkspaces(store, num_ok)
       IN  /\ key_to_keysym' = maps.key_to_keysym
           /\ keysym_to_key' = maps.keysym_to_key
           \* the Result of get_gsettings_values_from_config is not used
           /\ workspace_keybinding_map' =
                  ReadSlots(map, store, maps.keysym_to_key, fail_at)
           /\ cmds' = ReadSlotsCmds(map, fail_at)
                      \o <<GetCmd(WM_PREFERENCES, NumWorkspacesKey, num_ok)>>
           /\ IF num >= 0
              THEN /\ num_of_workspaces' = UsizeToString(num)
                   /\ status' = "running"
              ELSE /\ num_of_workspaces' = num_of_workspaces
                   /\ status' = "panicked"
    /\ event' = [op |-> "new", k |-> -1]
    /\ printed' = <<>>
    /\ UNCHANGED <<keysyms_txt, store, frames>>

(***************************************************************************)
(* App::update: one frame.                                                 *)
(***************************************************************************)
\* the loop over the slots, each drawn by workspace_keybinding_input; the
\* input of the frame, if any, goes to slot k_ev
RenderFrame(map, k_ev, sel, edited, typed, to_keysym) ==
    [k \in DOMAIN map |->
        IF k = k_ev THEN RenderSlot(map[k], sel, edited, typed, to_keysym)
        ELSE RenderSlot(map[k], -1, FALSE, <<>>, to_keysym)]

\* the slots when the frame panics while slot k is drawn: the later slots
\* have not been drawn
DrawnUpTo(old, drawn, k) ==
    [j \in DOMAIN old |-> IF j <= k THEN drawn[j] ELSE old[j]]

\* the click with every slot read again after the write (the plural
\* get_gsettings_values_from_config called in place of the singular)
ClickOverwriteReadAll(drawn, st, k, set_res, get_ok, to_key) ==
    LET v == drawn[k]
        st1 == StoreAfterSet(st, WM_KEYBINDINGS, v.gsettings_key,
                             v.converted_keybinding, set_res = "accepted")
        set == SetCmd(WM_KEYBINDINGS, v.gsettings_key, v.converted_keybinding,
                      set_res # "err")
    IN  IF set_res = "err"
        THEN [map |-> drawn, store |-> st, cmds |-> <<set>>,
              printed |-> <<"error">>, panicked |-> FALSE]
        ELSE IF get_ok
        THEN [map |-> ReadSlots(drawn, st1, to_key, -1), store |-> st1,
              cmds |-> <<set>> \o ReadSlotsCmds(drawn, -1),
              printed |-> <<"stdout">>, panicked |-> FALSE]
        ELSE [map |-> drawn, store |-> st1,
              cmds |-> <<set>> \o ReadSlotsCmds(drawn, 0),
              printed |-> <<"stdout">>, panicked |-> TRUE]

\* the click with the slot read again whatever set_wm_keybinding returned
ClickOverwriteAlwaysRead(drawn, st, k, set_res, get_ok, to_key) ==
    LET v == drawn[k]
        st1 == StoreAfterSet(st, WM_KEYBINDINGS, v.gsettings_key,
                             v.converted_keybinding, set_res = "accepted")
        set == SetCmd(WM_KEYBINDINGS, v.gsettings_key, v.converted_keybinding,
                      set_res # "err")
        get == GetCmd(WM_KEYBINDINGS, v.gsettings_key, get_ok)
        out == IF set_res = "err" THEN <<"error">> ELSE <<"stdout">>
    IN  IF get_ok
        THEN [map |-> [drawn EXCEPT ![k] =
                          ReadSlot(v, st1[<<WM_KEYBINDINGS, v.gsettings_key>>], to_key)],
              store |-> st1, cmds |-> <<set, get>>,
              printed |-> out, panicked |-> FALSE]
        ELSE [map |-> drawn, store |-> st1, cmds |-> <<set, get>>,
              printed |-> out, panicked |-> TRUE]

\* the Overwrite button of slot k clicked, on the slots as drawn this frame.
\* set_res: "accepted" and "rejected" are Ok(()) of set_wm_keybinding (the
\* store took the value, or did not), "err" is its Err; get_ok is the result
\* of the read that follows an Ok
ClickOverwrite(drawn, st, k, set_res, get_ok, to_key) ==
    LET v == drawn[k]
        st1 == StoreAfterSet(st, WM_KEYBINDINGS, v.gsettings_key,
                             v.converted_keybinding, set_res = "accepted")
        set == SetCmd(WM_KEYBINDINGS, v.gsettings_key, v.converted_keybinding,
                      set_res # "err")
        get == GetCmd(WM_KEYBINDINGS, v.gsettings_key, get_ok)
    IN  IF set_res = "err"
        THEN [map |-> drawn, store |-> st, cmds |-> <<set>>,
              printed |-> <<"error">>, panicked |-> FALSE]
        ELSE IF get_ok
        THEN [map |-> [drawn EXCEPT ![k] =
                          ReadSlot(v, st1[<<WM_KEYBINDINGS, v.gsettings_key>>], to_key)],
              store |-> st1, cmds |-> <<set, get>>,
              printed |-> <<"stdout">>, panicked |-> FALSE]
        ELSE [map |-> drawn, store |-> st1, cmds |-> <<set, get>>,
              printed |-> <<"stdout">>, panicked |-> TRUE]

Running == status = "running" /\ frames < MaxFrames

\* a frame without input
FrameIdle ==
    /\ Running
    /\ workspace_keybinding_map' =
           RenderFrame(workspace_keybinding_map, -1, -1, FALSE, <<>>, key_to_keysym)
    /\ event' = [op |-> "idle", k |-> -1]
    /\ cmds' = <<>>
    /\ printed' = <<>>
    /\ frames' = frames + 1
    /\ UNCHANGED <<status, keysyms_txt, key_to_keysym, keysym_to_key,
                   num_of_workspaces, store>>

\* the user picks modifier i in the combo box of slot k
FrameSelectModifier(k, i) ==
    /\ Running
    /\ workspace_keybinding_map' =
           RenderFrame(workspace_keybinding_map, k, i, FALSE, <<>>, key_to_keysym)
    /\ event' = [op |-> "select", k |-> k]
    /\ cmds' = <<>>
    /\ printed' = <<>>
    /\ frames' = frames + 1
    /\ UNCHANGED <<status, keysyms_txt, key_to_keysym, keysym_to_key,
                   num_of_workspaces, store>>

\* the user edits the key field of slot k, which then holds text
FrameTypeKey(k, text) ==
    /\ Running
    /\ workspace_keybinding_map' =
           RenderFrame(workspace_keybinding_map, k, -1, TRUE, text, key_to_keysym)
    /\ event' = [op |-> "type", k |-> k]
    /\ cmds' = <<>>
    /\ printed' = <<>>
    /\ frames' = frames + 1
    /\ UNCHANGED <<status, keysyms_txt, key_to_keysym, keysym_to_key,
                   num_of_workspaces, store>>

\* the user clicks Overwrite of slot k
FrameOverwrite(k, set_res, get_ok) ==
    /\ Running
    /\ LET drawn == RenderFrame(workspace_keybinding_map, -1, -1, FALSE, <<>>,
                                key_to_keysym)
           r == ClickOverwrite(drawn, store, k, set_res, get_ok, keysym_to_key)
       IN  /\ workspace_keybinding_map' =
                  IF r.panicked
                  THEN DrawnUpTo(workspace_keybinding_map, r.map, k)
                  ELSE r.map
           /\ store' = r.store
           /\ cmds' = r.cmds
           /\ printed' = r.printed
           /\ status' = IF r.panicked THEN "panicked" ELSE status
    /\ event' = [op |-> "overwrite", k |-> k]
    /\ frames' = frames + 1
    /\ UNCHANGED <<keysyms_txt, key_to_keysym, keysym_to_key, num_of_workspaces>>

\* the user edits the number field, which then holds text
FrameTypeNum(text) ==
    /\ Running
    /\ num_of_workspaces' = text
    /\ workspace_keybinding_map' =
           RenderFrame(workspace_keybinding_map, -1, -1, FALSE, <<>>, key_to_keysym)
    /\ event' = [op |-> "type_num", k |-> -1]
    /\ cmds' = <<>>
    /\ printed' = <<>>
    /\ frames' = frames + 1
    /\ UNCHANGED <<status, keysyms_txt, key_to_keysym, keysym_to_key, store>>

\* the Overwrite button of the number row: parse().unwrap(), then
\* set_number_of_workspaces(..).unwrap(), then get_number_of_workspaces().unwrap()
ClickNumOverwrite(num_field, st, set_res, get_ok) ==
    LET n == ParseUsize(num_field)
        set == SetCmd(WM_PREFERENCES, NumWorkspacesKey,
                      IF n >= 0 THEN UsizeToString(n) ELSE <<>>, set_res # "err")
        st1 == IF n >= 0
               THEN StoreAfterSet(st, WM_PREFERENCES, NumWorkspacesKey,
                                  UsizeToString(n), set_res = "accepted")
               ELSE st
        get == GetCmd(WM_PREFERENCES, NumWorkspacesKey, get_ok)
        m == GetNumberOfWorkspaces(st1, get_ok)
    IN  IF n < 0
        THEN [num |-> num_field, store |-> st, cmds |-> <<>>, panicked |-> TRUE]
        ELSE IF set_res = "err"
        THEN [num |-> num_field, store |-> st, cmds |-> <<set>>, panicked |-> TRUE]
        ELSE IF m < 0
        THEN [num |-> num_field, store |-> st1, cmds |-> <<set, get>>,
              panicked |-> TRUE]
        ELSE [num |-> UsizeToString(m), store |-> st1, cmds |-> <<set, get>>,
              panicked |-> FALSE]

\* the user clicks Overwrite of the number row
FrameNumOverwrite(set_res, get_ok) ==
    /\ Running
    /\ LET r == ClickNumOverwrite(num_of_workspaces, store, set_res, get_ok)
       IN  /\ num_of_workspaces' = r.num
           /\ store' = r.store
           /\ cmds' = r.cmds
           /\ status' = IF r.panicked THEN "panicked" ELSE status
           \* the slots are drawn after the number row
           /\ workspace_keybinding_map' =
                  IF r.panicked THEN workspace_keybinding_map
                  ELSE RenderFrame(workspace_keybinding_map, -1, -1, FALSE, <<>>,
                                   key_to_keysym)
    /\ event' = [op |-> "num_overwrite", k |-> -1]
    /\ printed' = <<>>
    /\ frames' = frames + 1
    /\ UNCHANGED <<keysyms_txt, key_to_keysym, keysym_to_key>>

\* disable_switch_to_application_shortcuts: ids 1..9 in order, ? returning at
\* the first set that fails (fail_id, or 0 when none does)
RECURSIVE DisableFrom(_, _, _)
DisableFrom(st, id, fail_id) ==
    IF id >= 10 \/ id = fail_id THEN st
    ELSE DisableFrom(StoreAfterSet(st, SHELL_KEYBINDINGS, ApplicationKey(id),
                                   EMPTY_KEYBINDING, TRUE),
                     id + 1, fail_id)

DisableCmds(fail_id) ==
    [id \in 1..(IF fail_id = 0 THEN 9 ELSE fail_id) |->
        SetCmd(SHELL_KEYBINDINGS, ApplicationKey(id), EMPTY_KEYBINDING,
               id # fail_id)]

\* the user clicks "Disable switch-to-application shortcuts"
FrameDisable(fail_id) ==
    /\ Running
    /\ store' = DisableFrom(store, 1, fail_id)
    /\ cmds' = DisableCmds(fail_id)
    /\ status' = IF fail_id # 0 THEN "panicked" ELSE status
    /\ workspace_keybinding_map' =
           IF fail_id # 0 THEN workspace_keybinding_map
           ELSE RenderFrame(workspace_keybinding_map, -1, -1, FALSE, <<>>,
                            key_to_keysym)
    /\ event' = [op |-> "disable", k |-> -1]
    /\ printed' = <<>>
    /\ frames' = frames + 1
    /\ UNCHANGED <<keysyms_txt, key_to_keysym, keysym_to_key, num_of_workspaces>>

SetResults == {"accepted", "rejected", "err"}

\* the ids at which a set of the Disable button fails (0: none does)
DisableFailures == {0, 1, 9}

Next ==
    \/ \E fail_at \in StartupReadFailures \cup {-1}, num_ok \in BOOLEAN :
          New(fail_at, num_ok)
    \/ FrameIdle
    \/ \E k \in Edited, i \in ModifierIndices : FrameSelectModifier(k, i)
    \/ \E k \in Edited, text \in TypedTexts : FrameTypeKey(k, text)
    \/ \E k \in Clicked, set_res \in SetResults, get_ok \in BOOLEAN :
          FrameOverwrite(k, set_res, get_ok)
    \/ \E text \in NumTexts : FrameTypeNum(text)
    \/ \E set_res \in SetResults, get_ok \in BOOLEAN :
          FrameNumOverwrite(set_res, get_ok)
    \/ \E fail_id \in DisableFailures : FrameDisable(fail_id)

Spec == Init /\ [][Next]_vars

(***************************************************************************)
(* Properties.                                                             *)
(***************************************************************************)
\* s begins with p
StartsWith(s, p) == Len(p) <= Len(s) /\ SubSeq(s, 1, Len(p)) = p

\* slot k was read from the store by the handler that ran last
JustRead(k) ==
    /\ status # "start"
    /\ k \in DOMAIN workspace_keybinding_map
    /\ \E i \in DOMAIN cmds :
          /\ cmds[i].op = "get" /\ cmds[i].ok
          /\ cmds[i].schema = WM_KEYBINDINGS
          /\ cmds[i].key = workspace_keybinding_map[k].gsettings_key

\* the indices of the non-empty table modifiers that occur in a stored value
Occurring(value) ==
    {i \in ModifierIndices :
        /\ ModifierAt(i).gsettings_value # <<>>
        /\ Contains(value, ModifierAt(i).gsettings_value)}

\* the indices of the non-empty table modifiers the stored keybinding starts with
Prefixing(value) ==
    {i \in ModifierIndices :
        /\ ModifierAt(i).gsettings_value # <<>>
        /\ StartsWith(value, <<"[", "'">> \o ModifierAt(i).gsettings_value)}

\* i is a longest modifier of the set, the first of the table among equals
LongestOf(i, set) ==
    /\ i \in set
    /\ \A j \in set :
          \/ Len(ModifierAt(j).gsettings_value) < Len(ModifierAt(i).gsettings_value)
          \/ /\ Len(ModifierAt(j).gsettings_value) = Len(ModifierAt(i).gsettings_value)
             /\ i <= j

\* C1 as stated: a slot just read has the index of the longest table modifier
\* that is a prefix of its stored keybinding.
C1_LongestPrefix ==
    \A k \in Slots :
        (JustRead(k) /\ Prefixing(workspace_keybinding_map[k].gsettings_value) # {})
        => LongestOf(workspace_keybinding_map[k].modifier_index,
                     Prefixing(workspace_keybinding_map[k].gsettings_value))

\* C1 amended: a slot just read, whose stored value contains a non-empty table
\* modifier anywhere, has the index of the longest modifier it contains, the
\* first of the table among those of equal length (SUPER before SHIFT).
C1_LongestContained ==
    \A k \in Slots :
        (JustRead(k) /\ Occurring(workspace_keybinding_map[k].gsettings_value) # {})
        => LongestOf(workspace_keybinding_map[k].modifier_index,
                     Occurring(workspace_keybinding_map[k].gsettings_value))

\* a slot read from a value starting with <Shift><Super>, in which SHIFT, SUPER
\* and SHIFT+SUPER all occur, has the index of SHIFT+SUPER
C1_Witness ==
    \E k \in Slots :
        /\ JustRead(k)
        /\ StartsWith(workspace_keybinding_map[k].gsettings_value,
                      <<"[", "'">> \o Shift \o Super)
        /\ Cardinality(Occurring(workspace_keybinding_map[k].gsettings_value)) = 3
        /\ workspace_keybinding_map[k].modifier_index = 5

\* C9 as stated: after every read of a slot, modifier_index is the index of the
\* modifier detected in gsettings_value, and 0 when it contains none.
C9_IndexDescribesValue ==
    \A k \in Slots :
        JustRead(k) =>
            LET v == workspace_keybinding_map[k]
            IN  IF Occurring(v.gsettings_value) = {}
                THEN v.modifier_index = 0
                ELSE LongestOf(v.modifier_index, Occurring(v.gsettings_value))

\* C5 as stated: the program never aborts, and every settings command that
\* failed in the handler that ran last had its error printed.
C5_ErrorsPrintedAndRunning ==
    /\ status # "panicked"
    /\ Cardinality({i \in DOMAIN cmds : ~cmds[i].ok})
         = Cardinality({i \in DOMAIN printed : printed[i] = "error"})

\* the columns of each line of the bundled table, and the lines init_keysyms takes
TableFields ==
    LET lines == Split(keysyms_txt, "\n")
    IN  [i \in 1..Len(lines) |-> SplitWhitespace(lines[i])]

TableTaken == {i \in DOMAIN TableFields : Len(TableFields[i]) >= 3}

\* each map holds, for every key (keysym) of the table, the partner it has on
\* the last line that names it
LastLineWins ==
    /\ DOMAIN key_to_keysym = {TableFields[i][3] : i \in TableTaken}
    /\ DOMAIN keysym_to_key = {TableFields[i][1] : i \in TableTaken}
    /\ \A i \in TableTaken :
          /\ (\A j \in TableTaken : j > i => TableFields[j][3] # TableFields[i][3])
                => key_to_keysym[TableFields[i][3]] = TableFields[i][1]
          /\ (\A j \in TableTaken : j > i => TableFields[j][1] # TableFields[i][1])
                => keysym_to_key[TableFields[i][1]] = TableFields[i][3]

\* no key and no keysym of the table appears with two partners
NoRepeats ==
    \A i, j \in TableTaken :
        (TableFields[i][3] = TableFields[j][3]) <=> (TableFields[i][1] = TableFields[j][1])

MutualInverses ==
    /\ \A k \in DOMAIN key_to_keysym :
          /\ key_to_keysym[k] \in DOMAIN keysym_to_key
          /\ keysym_to_key[key_to_keysym[k]] = k
    /\ \A y \in DOMAIN keysym_to_key :
          /\ keysym_to_key[y] \in DOMAIN key_to_keysym
          /\ key_to_keysym[keysym_to_key[y]] = y

\* C3 as stated: after init_keysyms, whatever the table, the two maps are mutual
\* inverses in every state.
C3_AlwaysInverses == status # "start" => MutualInverses

\* C3 amended: after init_keysyms, in every later state, each map holds for each
\* key (keysym) the partner of the last table line naming it, so no operation
\* changes a map; and the maps are mutual inverses when the table repeats no key
\* and no keysym.
C3_InversesWithoutRepeats ==
    status # "start" => (LastLineWins /\ (NoRepeats => MutualInverses))

\* after an Overwrite, with a table of two entries and no repeats, the maps
\* still are the two mutual inverses
C3_Witness ==
    /\ status = "running"
    /\ event.op = "overwrite"
    /\ NoRepeats
    /\ Cardinality(DOMAIN key_to_keysym) = 2
    /\ MutualInverses

\* the ten numbers of the slot keys, written out
SlotNumbers ==
    << <<"1">>, <<"2">>, <<"3">>, <<"4">>, <<"5">>, <<"6">>, <<"7">>, <<"8">>,
       <<"9">>, <<"1", "0">> >>

\* C4: once built, the map holds exactly the 20 slots 0..19 in every state;
\* slot i is bound to switch-to-workspace-(i+1) and slot 10+i to
\* move-to-workspace-(i+1), with its label; no two slots share a key.
C4_FixedSlots ==
    status # "start" =>
        /\ DOMAIN workspace_keybinding_map = 0..19
        /\ \A i \in 0..9 :
              /\ workspace_keybinding_map[i].gsettings_key
                    = <<"switch-to-workspace-">> \o SlotNumbers[i + 1]
              /\ workspace_keybinding_map[i].label
                    = <<"Switch to workspace ">> \o SlotNumbers[i + 1]
              /\ workspace_keybinding_map[10 + i].gsettings_key
                    = <<"move-to-workspace-">> \o SlotNumbers[i + 1]
              /\ workspace_keybinding_map[10 + i].label
                    = <<"Move window to workspace ">> \o SlotNumbers[i + 1]
        /\ \A i, j \in DOMAIN workspace_keybinding_map :
              workspace_keybinding_map[i].gsettings_key
                 = workspace_keybinding_map[j].gsettings_key => i = j

\* two frames on, after a key was typed and an Overwrite clicked, slot 19 still
\* is move-to-workspace-10
C4_Witness ==
    /\ status = "running"
    /\ frames = 2
    /\ event.op = "overwrite"
    /\ workspace_keybinding_map[0].keybinding = <<"@">>
    /\ workspace_keybinding_map[19].gsettings_key = <<"move-to-workspace-", "1", "0">>

\* every store key outside keys holds what it held before the step
StoreSameExcept(keys) == \A sk \in StoreKeys \ keys : store'[sk] = store[sk]

\* the step leaves slot j as a frame without input leaves it: its stored
\* value, modifier, key and label as they were, its key field as it was or, if
\* it held more than one key, cut to the first
Untouched(j) ==
    LET v == workspace_keybinding_map[j]
        w == workspace_keybinding_map'[j]
    IN  /\ w.gsettings_value = v.gsettings_value
        /\ w.modifier_index = v.modifier_index
        /\ w.modifier = v.modifier
        /\ w.gsettings_key = v.gsettings_key
        /\ w.label = v.label
        /\ \/ w.keybinding = v.keybinding
           \/ StrLen(v.keybinding) > 1 /\ w.keybinding = <<Head(v.keybinding)>>

C6_Step ==
    /\ event'.op \in {"new", "idle", "select", "type", "type_num"} =>
          /\ store' = store
          /\ \A i \in DOMAIN cmds' : cmds'[i].op = "get"
    /\ event'.op \in {"idle", "select", "type", "type_num"} => cmds' = <<>>
    /\ event'.op \in {"select", "type"} =>
          \A j \in Slots \ {event'.k} : Untouched(j)
    /\ event'.op = "overwrite" =>
          LET key == workspace_keybinding_map[event'.k].gsettings_key
          IN  /\ Cardinality({i \in DOMAIN cmds' : cmds'[i].op = "set"}) = 1
              /\ \A i \in DOMAIN cmds' :
                    cmds'[i].schema = WM_KEYBINDINGS /\ cmds'[i].key = key
              /\ StoreSameExcept({<<WM_KEYBINDINGS, key>>})
              /\ \A j \in Slots \ {event'.k} : Untouched(j)
    /\ event'.op = "disable" =>
          /\ \A i \in DOMAIN cmds' :
                /\ cmds'[i].op = "set"
                /\ cmds'[i].schema = SHELL_KEYBINDINGS
                /\ \E id \in 1..9 :
                      cmds'[i].key = <<"switch-to-application-", Digits[id + 1]>>
          /\ StoreSameExcept({<<SHELL_KEYBINDINGS,
                                <<"switch-to-application-", Digits[id + 1]>> >> :
                              id \in 1..9})
    /\ event'.op = "num_overwrite" =>
          /\ \A i \in DOMAIN cmds' :
                /\ cmds'[i].schema = WM_PREFERENCES
                /\ cmds'[i].key = <<"num-workspaces">>
          /\ StoreSameExcept({<<WM_PREFERENCES, <<"num-workspaces">> >>})

\* the frame of an edit or an Overwrite of slot k leaves every other slot's
\* key field exactly as it was
OtherKeysKept ==
    event'.op \in {"select", "type", "overwrite"} =>
        \A j \in Slots \ {event'.k} :
            workspace_keybinding_map'[j].keybinding =
                workspace_keybinding_map[j].keybinding

\* C6 as stated: the store is written only by a button click, each click
\* touching its own keys only, and an edit or an Overwrite of slot k leaves
\* every other slot's stored value, modifier_index and keybinding unchanged.
\* The code cuts, in every frame, every slot's key field of more than one key
\* to its first character (update draws all twenty slots), so the frame of an
\* edit of slot 0 turns another slot's Home, as loaded, into H.
C6_OtherSlotsUnchanged == [][C6_Step /\ OtherKeysKept]_vars

\* C6: the store is written only by a button click and each click touches its
\* own keys only.  A frame in which the user picks a modifier or types a key in
\* slot k runs no command, leaves the store alone and leaves every other slot
\* as a frame without input leaves it (key field as it was or, holding more
\* than one key, cut to the first); Overwrite of slot k runs exactly one
\* set, on slot k's key, reads no other key, changes no other store key and
\* leaves every other slot so; Disable sets switch-to-application-1..9 only,
\* and the number row's Overwrite num-workspaces only.
C6_ClicksTouchOwnKeys == [][C6_Step]_vars

\* Overwrite of slot 10 went through while slot 0 holds a modifier the user
\* picked and did not write
C6_Witness ==
    /\ status = "running"
    /\ event = [op |-> "overwrite", k |-> 10]
    /\ Len(cmds) = 2 /\ cmds[1].ok /\ cmds[2].ok
    /\ workspace_keybinding_map[0].modifier = "CTRL"
    /\ ~Contains(workspace_keybinding_map[0].gsettings_value, Ctrl)

\* a written value is ['<modifier><k>'] with <modifier> of the table and <k>
\* empty, one character, or the keysym of one character
WrittenForm(value) ==
    \E i \in ModifierIndices :
        LET pre == <<"[", "'">> \o ModifierAt(i).gsettings_value
        IN  /\ StartsWith(value, pre)
            /\ Len(value) >= Len(pre) + 2
            /\ SubSeq(value, Len(value) - 1, Len(value)) = <<"'", "]">>
            /\ LET rest == SubSeq(value, Len(pre) + 1, Len(value) - 2)
               IN  \/ Len(rest) <= 1
                   \/ \E c \in DOMAIN key_to_keysym :
                         Len(c) = 1 /\ key_to_keysym[c] = rest

\* C7: every value Overwrite hands to set_wm_keybinding has the form
\* ['<modifier><k>'], <k> empty, one character or the keysym of one character;
\* and when the write fails, so that the slot is not read again, the slot's key
\* field is seen to hold at most one character.
C7_OneKeyWritten ==
    /\ \A i \in DOMAIN cmds :
          (cmds[i].op = "set" /\ cmds[i].schema = WM_KEYBINDINGS)
          => WrittenForm(cmds[i].value)
    /\ (event.op = "overwrite" /\ ~cmds[1].ok)
          => Len(workspace_keybinding_map[event.k].keybinding) <= 1

\* a slot loaded as <Super>Home, a keysym of four characters without table
\* entry, is written as ['<Super>H']
C7_Witness ==
    /\ event.op = "overwrite"
    /\ cmds[1].op = "set"
    /\ cmds[1].value = <<"[", "'">> \o Super \o <<"H", "'", "]">>

C8_Step ==
    event'.op = "overwrite" =>
        LET k == event'.k
            v == workspace_keybinding_map[k]
            w == workspace_keybinding_map'[k]
        IN  /\ Len(cmds') >= 1
            /\ cmds'[1].op = "set" /\ cmds'[1].key = v.gsettings_key
            /\ cmds'[1].ok =>
                  /\ Len(cmds') = 2
                  /\ cmds'[2].op = "get" /\ cmds'[2].key = v.gsettings_key
            /\ (cmds'[1].ok /\ cmds'[2].ok) =>
                  /\ status' = "running"
                  /\ w.gsettings_value = store'[<<WM_KEYBINDINGS, v.gsettings_key>>]
            /\ ~cmds'[1].ok =>
                  /\ Len(cmds') = 1
                  /\ status' = "running"
                  /\ store' = store
                  /\ w.gsettings_value = v.gsettings_value
                  /\ w.modifier_index = v.modifier_index
                  /\ w.keybinding =
                        (IF v.keybinding = <<>> THEN <<>> ELSE <<Head(v.keybinding)>>)

\* C8: Overwrite of slot k first runs the set; the get of slot k's key runs
\* only after the set returned Ok, and then (the read returning Ok) the slot
\* shows the value the store holds for the key after the write, accepted or
\* not; when the set returns Err nothing is read and the slot keeps its stored
\* value, its modifier index and the key its field showed at the click.
C8_WriteThenRead == [][C8_Step]_vars

\* a write the store did not take: the slot shows the value the store still
\* holds, not the one written
C8_Witness ==
    /\ status = "running"
    /\ event.op = "overwrite"
    /\ Len(cmds) = 2 /\ cmds[1].ok /\ cmds[2].ok
    /\ store[<<WM_KEYBINDINGS, cmds[1].key>>] # cmds[1].value \o <<"\n">>
    /\ workspace_keybinding_map[event.k].gsettings_value
          = store[<<WM_KEYBINDINGS, cmds[1].key>>]

\* the step is an Overwrite whose write succeeded and whose read returned the
\* written value
WrittenAndReadBack ==
    /\ event'.op = "overwrite"
    /\ Len(cmds') = 2 /\ cmds'[1].ok /\ cmds'[2].ok
    /\ store'[<<WM_KEYBINDINGS, cmds'[1].key>>] = cmds'[1].value \o <<"\n">>

\* the key a field shows once the frame has cut it to one key
Shown(keybinding) ==
    IF keybinding = <<>> THEN <<>> ELSE <<Head(keybinding)>>

\* after the step the slot has the modifier index and the key it showed at the
\* click, and they convert to the value that was written
RoundTrip ==
    LET v == workspace_keybinding_map[event'.k]
        w == workspace_keybinding_map'[event'.k]
    IN  /\ w.modifier_index = v.modifier_index
        /\ w.keybinding = Shown(v.keybinding)
        /\ <<"[", "'">> \o ModifierAt(w.modifier_index).gsettings_value
              \o (IF w.keybinding \in DOMAIN key_to_keysym
                  THEN key_to_keysym[w.keybinding] ELSE w.keybinding)
              \o <<"'", "]">>
           = cmds'[1].value

\* the written form of the key survives the parse and the table maps it back
SurvivesParse(key) ==
    LET ks == IF key \in DOMAIN key_to_keysym THEN key_to_keysym[key] ELSE key
    IN  /\ \A i \in 1..Len(ks) : ks[i] \notin {"'", "[", "]"}
        /\ ~Contains(ks, <<"@", "a", "s">>)
        /\ ks # <<>> => (ks[1] \notin WhiteSpace /\ ks[Len(ks)] \notin WhiteSpace)
        /\ Occurring(ks) = {}
        /\ (IF ks \in DOMAIN keysym_to_key THEN keysym_to_key[ks] ELSE ks) = key

\* C2 as stated: for every modifier and every key field of at most one
\* character, an Overwrite whose written value the store returns leaves the slot
\* with the same modifier index and key, which convert to the written value.
C2_RoundTripEveryKey == [][WrittenAndReadBack => RoundTrip]_vars

\* C2 amended: the same for every key whose written form survives the parse:
\* it holds none of ' [ ] and no "@as", no modifier string of the table, neither
\* starts nor ends with whitespace, and keysym_to_key maps it back to the key
\* (or, being the key itself, has no entry).
C2_RoundTripParsedKeys ==
    [][(WrittenAndReadBack
        /\ SurvivesParse(Shown(workspace_keybinding_map[event'.k].keybinding)))
       => RoundTrip]_vars

\* SHIFT+SUPER and the key @, written as ['<Shift><Super>at'] and read back
C2_Witness ==
    /\ status = "running"
    /\ event = [op |-> "overwrite", k |-> 0]
    /\ Len(cmds) = 2 /\ cmds[1].ok /\ cmds[2].ok
    /\ cmds[1].value = <<"[", "'">> \o Shift \o Super \o <<"a", "t", "'", "]">>
    /\ store[<<WM_KEYBINDINGS, cmds[1].key>>] = cmds[1].value \o <<"\n">>
    /\ workspace_keybinding_map[0].modifier_index = 5
    /\ workspace_keybinding_map[0].keybinding = <<"@">>

====
